---- MODULE Spec2Model ----
(* Device type propagation over a TorchScript graph:                        *)
(* torch/csrc/jit/passes/device_type_analysis.cpp.                           *)
(*                                                                           *)
(* A graph is a block; a block is a sequence of nodes and a sequence of      *)
(* output values; a node has a kind, input values, output values, the        *)
(* arguments of its schema and (prim::If) two blocks.  Values are numbers;   *)
(* `type` maps every value to its type, the only thing the pass mutates.     *)
EXTENDS Integers, Sequences, FiniteSets

VARIABLES
  graph,     \* graph_->block(): the top-level block (never changed by the pass)
  type,      \* Value::type() of every value: [tensor, device, rank]
  stack,     \* the activation records of processBlock, innermost last
  changed_,  \* DeviceTypePropagationPass::changed_
  pc,        \* "run" while run() is executing, "done" once it has returned
  runs,      \* number of the current invocation of DeviceTypePropagation
  entry,     \* history: entry[k] is `type` when invocation number k started
  last       \* history: the node handled by the latest step, and `type` before it

vars == <<graph, type, stack, changed_, pc, runs, entry, last>>

-----------------------------------------------------------------------------
(* Bounds of the model *)

\* largest number of tensor operands of the operator under study
MaxInputs == 3
\* deepest nesting of prim::If nodes in the structured graphs
MaxDepth == 2
\* how many times DeviceTypePropagation is invoked on the same graph
MaxRuns == 2
\* largest number of device-typed arguments of the operator under study
MaxDeviceArgs == 2

-----------------------------------------------------------------------------
(* c10::optional, c10::Device, TensorType *)

Nullopt == <<>>
Some(x) == <<x>>

Devices == {"cpu", "cuda:0", "cuda:1"}
OptDevices == {Nullopt} \cup {Some(d) : d \in Devices}

\* Device::is_cpu
is_cpu(d) == d = "cpu"

\* symbolic_sizes().rank(): unknown, or a known number of dimensions
OptRanks == {Nullopt, Some(0), Some(1)}

TensorType(device, rank) == [tensor |-> TRUE, device |-> device, rank |-> rank]

\* any type for which cast<TensorType>() gives nullptr
NonTensorType == [tensor |-> FALSE, device |-> Nullopt, rank |-> Nullopt]

TensorTypes == {TensorType(d, r) : d \in OptDevices, r \in OptRanks}

\* optional<T>::value_or
value_or(opt, default) == IF opt = Nullopt THEN default ELSE opt[1]

-----------------------------------------------------------------------------
(* The propagation rules.  Every rule takes the node and the types before   *)
(* it and gives [type, changed]: the types after it and the returned bool.  *)

\* faulty variant: the write is reported as a change whether or not it is one
setDeviceType_AlwaysChanged(T, value, device) ==
  [type |-> [T EXCEPT ![value].device = device], changed |-> TRUE]

setDeviceType(T, value, device) ==
  LET changed == T[value].device # device
  IN  [type    |-> IF changed THEN [T EXCEPT ![value].device = device] ELSE T,
       changed |-> changed]

RECURSIVE setReturnsFrom(_, _, _, _, _)
\* the loop of setReturnsToDevice from output number i on
setReturnsFrom(T, outs, device, i, changed) ==
  IF i > Len(outs) THEN [type |-> T, changed |-> changed]
  ELSE IF ~T[outs[i]].tensor
       THEN setReturnsFrom(T, outs, device, i + 1, changed)
       ELSE LET r == setDeviceType(T, outs[i], device)
            IN  setReturnsFrom(r.type, outs, device, i + 1, changed \/ r.changed)

setReturnsToDevice(T, n, device) == setReturnsFrom(T, n.outputs, device, 1, FALSE)

\* faulty variant: the rank test is off by one, no input is ever exempt as zero-rank
is_cpu_zerodim_WrongRank(tensor_type) ==
  value_or(tensor_type.rank, -1) = 1
    /\ tensor_type.device # Nullopt /\ is_cpu(tensor_type.device[1])

\* faulty variant: a zero-rank input without device is exempt like a CPU one
is_cpu_zerodim_UnknownDevice(tensor_type) ==
  value_or(tensor_type.rank, -1) = 0
    /\ (tensor_type.device = Nullopt \/ is_cpu(tensor_type.device[1]))

\* is_cpu_zerodim as propWithNoDevice computes it for one input
is_cpu_zerodim(tensor_type) ==
  LET is_zerodim == value_or(tensor_type.rank, -1) = 0
      is_cpu_ == tensor_type.device # Nullopt /\ is_cpu(tensor_type.device[1])
  IN  is_zerodim /\ is_cpu_

RECURSIVE propScan(_, _, _, _, _, _)
\* the loop of propWithNoDevice from input number i on; gives the device the
\* function hands to setReturnsToDevice (nullopt on the early return)
propScan(T, inputs, i, device, seen_any_device, only_seen_cpu_zerodim) ==
  IF i > Len(inputs) THEN device
  ELSE LET tensor_type == T[inputs[i]]
       IN  IF ~tensor_type.tensor
           THEN propScan(T, inputs, i + 1, device, seen_any_device,
                         only_seen_cpu_zerodim)
           ELSE IF seen_any_device
           THEN IF device # tensor_type.device /\ ~is_cpu_zerodim(tensor_type)
                THEN IF only_seen_cpu_zerodim
                     THEN propScan(T, inputs, i + 1, tensor_type.device, TRUE, FALSE)
                     ELSE Nullopt
                ELSE propScan(T, inputs, i + 1, device, seen_any_device,
                              only_seen_cpu_zerodim)
           ELSE propScan(T, inputs, i + 1, tensor_type.device, TRUE,
                         is_cpu_zerodim(tensor_type))

propWithNoDevice(T, n) ==
  setReturnsToDevice(T, n, propScan(T, n.inputs, 1, Nullopt, FALSE, FALSE))

\* toIValue of an input: nullopt when the input is no constant
IValues == [kind : {"nullopt", "None", "String"}, device : {"cpu"}]
             \cup [kind : {"Device"}, device : Devices]
IValue(kind) == [kind |-> kind, device |-> "cpu"]
DeviceIValue(d) == [kind |-> "Device", device |-> d]

\* an Argument of the schema with the constant its input holds
Argument(isDevice, ivalue) == [isDevice |-> isDevice, ivalue |-> ivalue]
TensorArgument == Argument(FALSE, IValue("nullopt"))

RECURSIVE argScan(_, _, _)
\* the loop of defaultDeviceProp from argument number i on
argScan(T, n, i) ==
  IF i > Len(n.arguments) THEN propWithNoDevice(T, n)
  ELSE LET argument == n.arguments[i]
           input_val == argument.ivalue
       IN  IF argument.isDevice
           THEN IF input_val.kind = "nullopt" THEN [type |-> T, changed |-> FALSE]
                ELSE IF input_val.kind = "None" THEN argScan(T, n, i + 1)
                ELSE IF input_val.kind # "Device" THEN [type |-> T, changed |-> FALSE]
                ELSE setReturnsToDevice(T, n, Some(input_val.device))
           ELSE argScan(T, n, i + 1)

\* faulty variant: the device arguments are not looked at
defaultDeviceProp_OperandsOnly(T, n) ==
  IF ~n.hasOperator THEN [type |-> T, changed |-> FALSE] ELSE propWithNoDevice(T, n)

RECURSIVE argScanLenient(_, _, _)
argScanLenient(T, n, i) ==
  IF i > Len(n.arguments) THEN propWithNoDevice(T, n)
  ELSE LET argument == n.arguments[i]
       IN  IF argument.isDevice /\ argument.ivalue.kind = "Device"
           THEN setReturnsToDevice(T, n, Some(argument.ivalue.device))
           ELSE argScanLenient(T, n, i + 1)

\* faulty variant: a device argument that is no constant device is passed over like a
\* None one instead of ending the inference
defaultDeviceProp_PassesOver(T, n) ==
  IF ~n.hasOperator THEN [type |-> T, changed |-> FALSE] ELSE argScanLenient(T, n, 1)

defaultDeviceProp(T, n) ==
  IF ~n.hasOperator THEN [type |-> T, changed |-> FALSE] ELSE argScan(T, n, 1)

RECURSIVE mergeFrom(_, _, _, _, _, _)
\* the loop of mergeAndApplyTensorProps from position i on
mergeFrom(T, src1, src2, dst, i, changed) ==
  IF i > Len(dst) THEN [type |-> T, changed |-> changed]
  ELSE LET src1_type == T[src1[i]]
           src2_type == T[src2[i]]
       IN  IF ~src1_type.tensor \/ ~src2_type.tensor
           THEN mergeFrom(T, src1, src2, dst, i + 1, changed)
           ELSE LET r == IF src1_type.device = Nullopt \/ src2_type.device = Nullopt
                            \/ ~(src1_type.device[1] = src2_type.device[1])
                         THEN setDeviceType(T, dst[i], Nullopt)
                         ELSE setDeviceType(T, dst[i], src1_type.device)
                IN  mergeFrom(r.type, src1, src2, dst, i + 1, changed \/ r.changed)

\* the merge with the device of position i given by join(src1 type, src2 type)
MergeWith(T, src1, src2, dst, join(_, _)) ==
  LET pos == {i \in 1..Len(dst) : T[src1[i]].tensor /\ T[src2[i]].tensor}
      after == [v \in DOMAIN T |->
                  IF \E i \in pos : dst[i] = v
                  THEN LET i == CHOOSE j \in pos : dst[j] = v
                       IN  [T[v] EXCEPT !.device = join(T[src1[i]], T[src2[i]])]
                  ELSE T[v]]
  IN  [type |-> after, changed |-> \E v \in DOMAIN T : after[v] # T[v]]

\* faulty variant: the output takes the device of the first block's exit value
mergeAndApplyTensorProps_FirstBlock(T, src1, src2, dst) ==
  LET first(t1, t2) == t1.device
  IN  MergeWith(T, src1, src2, dst, first)

\* faulty variant: the merge makes the zero-rank CPU exception of propWithNoDevice
mergeAndApplyTensorProps_ZeroRank(T, src1, src2, dst) ==
  LET lattice(t1, t2) ==
        IF t1.device = t2.device THEN t1.device
        ELSE IF t1.device = Nullopt \/ t2.device = Nullopt THEN Nullopt
        ELSE IF is_cpu_zerodim(t1) THEN t2.device
        ELSE IF is_cpu_zerodim(t2) THEN t1.device
        ELSE Nullopt
  IN  MergeWith(T, src1, src2, dst, lattice)

mergeAndApplyTensorProps(T, src1, src2, dst) == mergeFrom(T, src1, src2, dst, 1, FALSE)

-----------------------------------------------------------------------------
(* Nodes and blocks *)

Symbol(ns, name) == [ns |-> ns, name |-> name]
is_aten(kind) == kind.ns = "aten"

prim_If == Symbol("prim", "If")
prim_Loop == Symbol("prim", "Loop")
prim_CallMethod == Symbol("prim", "CallMethod")
prim_CallFunction == Symbol("prim", "CallFunction")
prim_Constant == Symbol("prim", "Constant")
prim_ListConstruct == Symbol("prim", "ListConstruct")
prim_ListUnpack == Symbol("prim", "ListUnpack")

Block(nodes, outputs) == [nodes |-> nodes, outputs |-> outputs]

\* hasOperator: maybeOperator() (and with it maybeSchema()) finds an operator
Node(kind, inputs, arguments, outputs, hasOperator, blocks) ==
  [kind |-> kind, inputs |-> inputs, arguments |-> arguments, outputs |-> outputs,
   hasOperator |-> hasOperator, blocks |-> blocks]

NoNode == Node(Symbol("", ""), <<>>, <<>>, <<>>, FALSE, <<>>)

\* a node that is no prim::If, every input an ordinary (non-device) argument
Plain(kind, inputs, outputs, hasOperator) ==
  Node(kind, inputs, [i \in 1..Len(inputs) |-> TensorArgument], outputs,
       hasOperator, <<>>)

\* prim::If on the condition cond
If(cond, outputs, true_block, false_block) ==
  Node(prim_If, <<cond>>, <<>>, outputs, FALSE, <<true_block, false_block>>)

-----------------------------------------------------------------------------
(* The traversal: DeviceTypePropagationPass *)

\* an activation of processBlock: the block, the iterator `it` as an index,
\* and which block of the enclosing prim::If it is (0: graph_->block())
Frame(block, branch) == [block |-> block, it |-> 1, branch |-> branch]

Top == stack[Len(stack)]
AtNode == pc = "run" /\ Top.it <= Len(Top.block.nodes)
AtEnd == pc = "run" /\ Top.it > Len(Top.block.nodes)
Cur == Top.block.nodes[Top.it]

\* it++ in the innermost processBlock
Advance(s) == [s EXCEPT ![Len(s)].it = @ + 1]
Pop(s) == SubSeq(s, 1, Len(s) - 1)

has_tensor_output(T, n) == \E i \in 1..Len(n.outputs) : T[n.outputs[i]].tensor

Step(name, n) == [step |-> name, node |-> n, before |-> type, changed |-> changed_]

\* processNode, case prim::If: processIf up to the call processBlock(true_block)
processIf ==
  /\ AtNode /\ Cur.kind = prim_If
  /\ stack' = Append(stack, Frame(Cur.blocks[1], 1))
  /\ last' = Step("processIf", Cur)
  /\ UNCHANGED <<graph, type, changed_, pc, runs, entry>>

\* processIf: processBlock(true_block) has returned, processBlock(false_block)
processIfFalseBlock ==
  /\ AtEnd /\ Top.branch = 1
  /\ LET node == stack[Len(stack) - 1].block.nodes[stack[Len(stack) - 1].it]
     IN  /\ stack' = Append(Pop(stack), Frame(node.blocks[2], 2))
         /\ last' = Step("processIfFalseBlock", node)
  /\ UNCHANGED <<graph, type, changed_, pc, runs, entry>>

\* processIf: processBlock(false_block) has returned; mergeAndApplyTensorProps,
\* whose result is dropped, and back to the loop of the enclosing processBlock
processIfMerge ==
  /\ AtEnd /\ Top.branch = 2
  /\ LET node == stack[Len(stack) - 1].block.nodes[stack[Len(stack) - 1].it]
         r == mergeAndApplyTensorProps(type, node.blocks[1].outputs,
                                       node.blocks[2].outputs, node.outputs)
     IN  /\ type' = r.type
         /\ stack' = Advance(Pop(stack))
         /\ last' = Step("processIfMerge", node)
  /\ UNCHANGED <<graph, changed_, pc, runs, entry>>

\* faulty variant: loops and calls fall through to the operand rule
processNodeNotHandled_Propagates ==
  /\ AtNode /\ Cur.kind \in {prim_Loop, prim_CallMethod, prim_CallFunction}
  /\ LET r == propWithNoDevice(type, Cur)
     IN  type' = r.type /\ changed_' = (changed_ \/ r.changed)
  /\ stack' = Advance(stack)
  /\ last' = Step("processNodeNotHandled", Cur)
  /\ UNCHANGED <<graph, pc, runs, entry>>

\* processNode, cases prim::Loop, prim::CallMethod, prim::CallFunction
processNodeNotHandled ==
  /\ AtNode /\ Cur.kind \in {prim_Loop, prim_CallMethod, prim_CallFunction}
  /\ stack' = Advance(stack)
  /\ last' = Step("processNodeNotHandled", Cur)
  /\ UNCHANGED <<graph, type, changed_, pc, runs, entry>>

Handled(n) == n.kind \notin {prim_If, prim_Loop, prim_CallMethod, prim_CallFunction}

\* processNode: no output is a tensor
processNodeNoTensorOutput ==
  /\ AtNode /\ Handled(Cur) /\ ~has_tensor_output(type, Cur)
  /\ stack' = Advance(stack)
  /\ last' = Step("processNodeNoTensorOutput", Cur)
  /\ UNCHANGED <<graph, type, changed_, pc, runs, entry>>

\* processNode, cases prim::Constant, prim::ListConstruct, prim::ListUnpack
processNodeConstantOrList ==
  /\ AtNode /\ Handled(Cur) /\ has_tensor_output(type, Cur)
  /\ Cur.kind \in {prim_Constant, prim_ListConstruct, prim_ListUnpack}
  /\ stack' = Advance(stack)
  /\ last' = Step("processNodeConstantOrList", Cur)
  /\ UNCHANGED <<graph, type, changed_, pc, runs, entry>>

\* processNode, default case, the kind is not in the aten namespace
processNodeNotAten ==
  /\ AtNode /\ Handled(Cur) /\ has_tensor_output(type, Cur)
  /\ Cur.kind \notin {prim_Constant, prim_ListConstruct, prim_ListUnpack}
  /\ ~is_aten(Cur.kind)
  /\ stack' = Advance(stack)
  /\ last' = Step("processNodeNotAten", Cur)
  /\ UNCHANGED <<graph, type, changed_, pc, runs, entry>>

\* processNode, default case, aten namespace: processAtenOps
processAtenOps ==
  /\ AtNode /\ Handled(Cur) /\ has_tensor_output(type, Cur)
  /\ Cur.kind \notin {prim_Constant, prim_ListConstruct, prim_ListUnpack}
  /\ is_aten(Cur.kind)
  /\ IF ~Cur.hasOperator
     THEN UNCHANGED <<type, changed_>>
     ELSE LET r == defaultDeviceProp(type, Cur)
          IN  type' = r.type /\ changed_' = (changed_ \/ r.changed)
  /\ stack' = Advance(stack)
  /\ last' = Step("processAtenOps", Cur)
  /\ UNCHANGED <<graph, pc, runs, entry>>

\* run: processBlock(graph_->block()) has returned; return changed_
run ==
  /\ AtEnd /\ Top.branch = 0
  /\ pc' = "done"
  /\ last' = Step("run", NoNode)
  /\ UNCHANGED <<graph, type, stack, changed_, runs, entry>>

\* DeviceTypePropagation called again on the same graph: a new pass object
DeviceTypePropagation ==
  /\ pc = "done" /\ runs < MaxRuns
  /\ pc' = "run"
  /\ runs' = runs + 1
  /\ changed_' = FALSE
  /\ stack' = <<Frame(graph, 0)>>
  /\ entry' = Append(entry, type)
  /\ last' = [step |-> "DeviceTypePropagation", node |-> NoNode, before |-> type,
              changed |-> FALSE]
  /\ UNCHANGED <<graph, type>>

-----------------------------------------------------------------------------
(* The graphs the pass is run on.  A case is a graph with the types of its  *)
(* values on entry.                                                          *)

Case(block, types) == [graph |-> block, type |-> types]

RECURSIVE Seqs(_, _)
\* the sequences of length k over S
Seqs(S, k) == IF k = 0 THEN {<<>>} ELSE {Append(s, x) : s \in Seqs(S, k - 1), x \in S}

SeqsUpTo(S, k) == UNION {Seqs(S, j) : j \in 0..k}

aten_op == Symbol("aten", "op")

\* the types an operand is drawn from: every device, rank unknown or 0, and
\* a value that is no tensor
OperandTypes ==
  {TensorType(d, r) : d \in OptDevices, r \in {Nullopt, Some(0)}} \cup {NonTensorType}

\* one operator without device argument, aten::op(v1..vk) -> (Tensor, int):
\* any types of the operands, the tensor output fresh or with a device left on it
OperandCases ==
  {Case(Block(<<Plain(aten_op, [i \in 1..Len(ts) |-> i],
                      <<Len(ts) + 1, Len(ts) + 2>>, TRUE)>>, <<Len(ts) + 1>>),
        ts \o <<TensorType(prior, Some(1)), NonTensorType>>) :
     ts \in SeqsUpTo(OperandTypes, MaxInputs),
     prior \in {Nullopt, Some("cuda:1")}}

\* the types the two tensor operands of the operator with device arguments have
PairTypes ==
  {TensorType(Nullopt, Nullopt), TensorType(Some("cpu"), Some(0)),
   TensorType(Some("cuda:0"), Some(1)), TensorType(Some("cuda:1"), Nullopt)}

\* the types of the two outputs of the operator with device arguments
OutputTypes ==
  {<<TensorType(prior, Some(1)), TensorType(Nullopt, Nullopt)>> :
     prior \in {Nullopt, Some("cuda:1")}}
    \cup {<<NonTensorType, NonTensorType>>}

\* one operator aten::op(Tensor v1, Tensor v2, int v3, Device? v4, ...) with up
\* to MaxDeviceArgs device arguments, each bound to any constant or to none
DeviceArgCases ==
  {Case(Block(<<Node(aten_op, [i \in 1..(3 + Len(ivs)) |-> i],
                     <<TensorArgument, TensorArgument, Argument(FALSE, IValue("String"))>>
                       \o [i \in 1..Len(ivs) |-> Argument(TRUE, ivs[i])],
                     <<Len(ivs) + 4, Len(ivs) + 5>>, TRUE, <<>>)>>, <<Len(ivs) + 4>>),
        <<t1, t2, NonTensorType>> \o [i \in 1..Len(ivs) |-> NonTensorType] \o outs) :
     t1 \in PairTypes, t2 \in PairTypes,
     ivs \in SeqsUpTo(IValues, MaxDeviceArgs), outs \in OutputTypes}

\* the kinds of the first node of every block of a structured graph
LeafKinds ==
  {<<aten_op, TRUE>>, <<aten_op, FALSE>>, <<prim_Loop, FALSE>>,
   <<prim_CallMethod, FALSE>>, <<prim_CallFunction, FALSE>>,
   <<prim_Constant, FALSE>>, <<prim_ListConstruct, FALSE>>,
   <<prim_ListUnpack, FALSE>>, <<Symbol("prim", "TupleUnpack"), FALSE>>}

RECURSIVE Size(_)
\* the number of values a structured block of depth d defines
Size(d) == IF d = 0 THEN 1 ELSE 5 + 2 * Size(d - 1)

RECURSIVE Nest(_, _, _, _, _)
\* the structured block of depth d over the values x and y in scope, its own
\* values numbered from base + 1; value 3 is an int in scope everywhere:
\*     v1 = leaf(x, y)
\*     o1, o2, o3 = prim::If(3)
\*         block0: Nest(d - 1, x, v1)   -> (its last value, x, 3)
\*         block1: Nest(d - 1, y, v1)   -> (its last value, y, 3)
\*     v3 = aten::op(o1, o2)
Nest(d, x, y, base, leaf) ==
  LET v1 == base + 1
      sub == Size(d - 1)
      v3 == base + 5 + 2 * sub
  IN  IF d = 0
      THEN Block(<<Plain(leaf[1], <<x, y>>, <<v1>>, leaf[2])>>, <<v1, x, 3>>)
      ELSE Block(<<Plain(leaf[1], <<x, y>>, <<v1>>, leaf[2]),
                   If(3, <<base + 2, base + 3, base + 4>>,
                      Nest(d - 1, x, v1, base + 4, leaf),
                      Nest(d - 1, y, v1, base + 4 + sub, leaf)),
                   Plain(aten_op, <<base + 2, base + 3>>, <<v3>>, TRUE)>>,
                 <<v3, x, 3>>)

RECURSIVE NestTypes(_, _, _)
\* the types on entry of the values Nest(d, ...) defines, in their order:
\* node outputs are tensors with device p, prim::If outputs with device pIf
NestTypes(d, p, pIf) ==
  IF d = 0 THEN <<p>>
  ELSE <<p, pIf, pIf, NonTensorType>> \o NestTypes(d - 1, p, pIf)
         \o NestTypes(d - 1, p, pIf) \o <<p>>

\* the types the graph inputs of a structured graph are drawn from
InputTypes == {TensorType(d, r) : d \in OptDevices, r \in {Some(0), Some(1)}}

\* what is left on the outputs on entry: nothing, a device on the outputs of
\* the plain nodes only, or the same device on every output
Priors ==
  {<<TensorType(p[1], r), TensorType(p[2], r)>> :
     p \in {<<Nullopt, Nullopt>>, <<Some("cuda:0"), Nullopt>>,
            <<Some("cuda:0"), Some("cuda:0")>>},
     r \in {Some(0), Some(1)}}

\* graph(Tensor v1, Tensor v2, int v3) with prim::If nested MaxDepth deep
NestedCases ==
  {Case(Nest(MaxDepth, 1, 2, 3, leaf),
        <<a, b, NonTensorType>> \o NestTypes(MaxDepth, p[1], p[2])) :
     a \in InputTypes, b \in InputTypes, leaf \in LeafKinds, p \in Priors}

Cases == OperandCases \cup DeviceArgCases \cup NestedCases

Init ==
  /\ \E c \in Cases : graph = c.graph /\ type = c.type /\ entry = <<c.type>>
                      /\ stack = <<Frame(c.graph, 0)>>
                      /\ last = [step |-> "DeviceTypePropagation", node |-> NoNode,
                                 before |-> c.type, changed |-> FALSE]
  /\ changed_ = FALSE
  /\ pc = "run"
  /\ runs = 1

Next ==
  \/ processIf
  \/ processIfFalseBlock
  \/ processIfMerge
  \/ processNodeNotHandled
  \/ processNodeNoTensorOutput
  \/ processNodeConstantOrList
  \/ processNodeNotAten
  \/ processAtenOps
  \/ run
  \/ DeviceTypePropagation

Spec == Init /\ [][Next]_vars

-----------------------------------------------------------------------------
(* Vocabulary of the properties *)

Min(S) == CHOOSE x \in S : \A y \in S : x <= y

RECURSIVE NodesOf(_)
\* every node of a block, those of nested blocks included
NodesOf(block) ==
  UNION {{block.nodes[i]} \cup
           (IF block.nodes[i].kind = prim_If
            THEN NodesOf(block.nodes[i].blocks[1]) \cup NodesOf(block.nodes[i].blocks[2])
            ELSE {}) : i \in 1..Len(block.nodes)}

\* the tensor-typed outputs and inputs (by position) of a node
TensorOutputs(n) == {n.outputs[i] : i \in {j \in 1..Len(n.outputs) : type[n.outputs[j]].tensor}}
TensorInputs(n) == {i \in 1..Len(n.inputs) : last.before[n.inputs[i]].tensor}
InputType(n, i) == last.before[n.inputs[i]]

\* the latest step ran the operator rule on a node with a resolvable schema
OperatorStep == last.step = "processAtenOps" /\ last.node.hasOperator

\* the device-typed parameters of the schema whose input is not statically None
BoundDeviceArgs(n) ==
  {i \in 1..Len(n.arguments) : n.arguments[i].isDevice /\ n.arguments[i].ivalue.kind # "None"}
FirstDeviceArg(n) == n.arguments[Min(BoundDeviceArgs(n))].ivalue

\* the latest step resolved the device of the node from its operands
OperandStep == OperatorStep /\ BoundDeviceArgs(last.node) = {}

\* a zero-rank tensor on the default (CPU) location
ZeroRankDefault(t) == t.tensor /\ t.rank = Some(0) /\ t.device = Some("cpu")

OutputsAre(n, device) == \A o \in TensorOutputs(n) : type[o].device = device
OutputsUntouched(n) == \A i \in 1..Len(n.outputs) : type[n.outputs[i]] = last.before[n.outputs[i]]

SkipKinds ==
  {prim_Loop, prim_CallMethod, prim_CallFunction, prim_Constant, prim_ListConstruct,
   prim_ListUnpack}

-----------------------------------------------------------------------------
(* Properties *)

\* C1: when run() has returned, changed_ is true if the run changed the device
\* of any value, the outputs of prim::If nodes included.
C1_ReturnsEveryMutation == pc = "done" => (type # entry[runs] => changed_)

\* C2: a second run right after a first returns changed = false and leaves the
\* device of every value as it found it.
C2_Idempotence == (pc = "done" /\ runs >= 2) => (~changed_ /\ type = entry[runs])

\* a second run has returned on a graph with nested conditionals whose first
\* run changed annotations
C2_Witness ==
  /\ pc = "done" /\ runs = 2
  /\ entry[1] # entry[2]
  /\ \E n \in NodesOf(graph) : n.kind = prim_If /\ \E m \in NodesOf(n.blocks[1]) : m.kind = prim_If

\* C3: when the first device-typed parameter whose input is not None is bound
\* to the device e, every tensor output gets e, whatever the operands.
C3_ExplicitDeviceOverrides ==
  (OperatorStep /\ BoundDeviceArgs(last.node) # {}
     /\ FirstDeviceArg(last.node).kind = "Device")
    => OutputsAre(last.node, Some(FirstDeviceArg(last.node).device))

\* device argument cuda:1 after a None one, both tensor operands on cuda:0,
\* two tensor outputs
C3_Witness ==
  /\ OperatorStep /\ BoundDeviceArgs(last.node) # {}
  /\ FirstDeviceArg(last.node) = DeviceIValue("cuda:1")
  /\ Min(BoundDeviceArgs(last.node)) = 5
  /\ \A i \in {1, 2} : InputType(last.node, i).device = Some("cuda:0")
  /\ Cardinality(TensorOutputs(last.node)) = 2
  /\ OutputsAre(last.node, Some("cuda:1"))

\* C4: when the device comes from the operands and two tensor inputs have
\* different known devices, neither of the two a zero-rank CPU tensor, every
\* tensor output is set to unknown.
C4_ConflictGivesUnknown ==
  (OperandStep
     /\ \E i, j \in TensorInputs(last.node) :
          /\ InputType(last.node, i).device # Nullopt
          /\ InputType(last.node, j).device # Nullopt
          /\ InputType(last.node, i).device # InputType(last.node, j).device
          /\ ~ZeroRankDefault(InputType(last.node, i))
          /\ ~ZeroRankDefault(InputType(last.node, j)))
    => OutputsAre(last.node, Nullopt)

\* C5: when the device comes from the operands, some tensor inputs are
\* zero-rank CPU tensors and all the other tensor inputs, at least one, have
\* the same known device d, every tensor output gets d.
C5_ZeroRankAbsorption ==
  \A d \in Devices :
    (OperandStep
       /\ (\E z \in TensorInputs(last.node) : ZeroRankDefault(InputType(last.node, z)))
       /\ (\E k \in TensorInputs(last.node) : ~ZeroRankDefault(InputType(last.node, k)))
       /\ (\A i \in TensorInputs(last.node) :
             ~ZeroRankDefault(InputType(last.node, i))
               => InputType(last.node, i).device = Some(d)))
      => OutputsAre(last.node, Some(d))

\* operands zero-rank CPU, cuda:0, zero-rank CPU in this order
C5_Witness ==
  /\ OperandStep
  /\ Len(last.node.inputs) = 3
  /\ ZeroRankDefault(InputType(last.node, 1))
  /\ InputType(last.node, 2) = TensorType(Some("cuda:0"), Nullopt)
  /\ ZeroRankDefault(InputType(last.node, 3))
  /\ TensorOutputs(last.node) # {}
  /\ OutputsAre(last.node, Some("cuda:0"))

\* the devices of the exit values of the two blocks at position i
Exit(n, b, i) == type[n.blocks[b].outputs[i]]
JoinPositions(n) ==
  {i \in 1..Len(n.outputs) : Exit(n, 1, i).tensor /\ Exit(n, 2, i).tensor}

\* C6: after the merge of a prim::If, an output whose two exit values are
\* tensors has their device if both have the same known device, and is
\* unknown otherwise.
C6_ConditionalJoin ==
  last.step = "processIfMerge" =>
    \A i \in JoinPositions(last.node) :
      type[last.node.outputs[i]].device =
        IF Exit(last.node, 1, i).device # Nullopt
             /\ Exit(last.node, 1, i).device = Exit(last.node, 2, i).device
        THEN Exit(last.node, 1, i).device
        ELSE Nullopt

\* a merge where the exits computed in the branches agree on a device they
\* did not have on entry, and the exits at the next position disagree
C6_Witness ==
  /\ last.step = "processIfMerge"
  /\ Exit(last.node, 1, 1).device = Some("cuda:1")
  /\ Exit(last.node, 2, 1).device = Some("cuda:1")
  /\ entry[1][last.node.blocks[1].outputs[1]].device = Nullopt
  /\ type[last.node.outputs[1]].device = Some("cuda:1")
  /\ Exit(last.node, 1, 2).device = Some("cpu")
  /\ Exit(last.node, 2, 2).device = Some("cuda:1")
  /\ type[last.node.outputs[2]].device = Nullopt

\* the positions where one exit is a zero-rank CPU tensor and the other has
\* another known device
ZeroRankJoins(n) ==
  {i \in JoinPositions(n) :
     \E b \in {1, 2} :
       /\ ZeroRankDefault(Exit(n, b, i))
       /\ Exit(n, 3 - b, i).device \notin {Nullopt, Some("cpu")}}

\* C7 as stated: at such a position the output gets the other exit's device.
C7_JoinUsesLattice ==
  last.step = "processIfMerge" =>
    \A i \in ZeroRankJoins(last.node) : \A b \in {1, 2} :
      ZeroRankDefault(Exit(last.node, b, i))
        => type[last.node.outputs[i]].device = Exit(last.node, 3 - b, i).device

\* C7 as amended: the join has no zero-rank exception; at such a position the
\* output is set to unknown.
C7_JoinIsPlainEquality ==
  last.step = "processIfMerge" =>
    \A i \in ZeroRankJoins(last.node) : type[last.node.outputs[i]].device = Nullopt

\* a merge with a zero-rank CPU exit against an exit on cuda:0, the output
\* annotated cuda:0 before the merge
C7_Witness ==
  /\ last.step = "processIfMerge"
  /\ \E i \in ZeroRankJoins(last.node) :
       /\ ZeroRankDefault(Exit(last.node, 1, i))
       /\ Exit(last.node, 2, i).device = Some("cuda:0")
       /\ last.before[last.node.outputs[i]].device = Some("cuda:0")
       /\ type[last.node.outputs[i]].device = Nullopt

\* C8: the step that handles a loop, call, constant, list-construction or
\* list-unpack node leaves its outputs and changed_ alone, and the outputs of
\* every such node of the graph keep the annotation they had on entry.
C8_SkipClassesUntouched ==
  /\ last.node.kind \in SkipKinds
       => OutputsUntouched(last.node) /\ changed_ = last.changed
  /\ \A n \in NodesOf(graph) :
       n.kind \in SkipKinds => \A i \in 1..Len(n.outputs) : type[n.outputs[i]] = entry[1][n.outputs[i]]

\* the pass has returned on a graph with a loop node inside a branch whose
\* tensor output kept cuda:0 although its operands are on cuda:1 and cuda:0
C8_Witness ==
  /\ pc = "done"
  /\ \E f \in NodesOf(graph) : f.kind = prim_If /\
       \E n \in NodesOf(f.blocks[1]) :
         /\ n.kind = prim_Loop
         /\ type[n.outputs[1]] = TensorType(Some("cuda:0"), Some(1))
         /\ type[n.inputs[1]].device = Some("cuda:1")
         /\ type[n.inputs[2]].device = Some("cuda:0")

\* C9: when the first device-typed parameter whose input is not None has an
\* input that is no constant, or a constant that is no device, the node's
\* outputs, every other value and changed_ are left as they were.
C9_AbortWithoutWrites ==
  (OperatorStep /\ BoundDeviceArgs(last.node) # {}
     /\ FirstDeviceArg(last.node).kind \in {"nullopt", "String"})
    => type = last.before /\ changed_ = last.changed

\* the device argument after a None one is not a constant, the operands are
\* both on cuda:0 and the output keeps its stale cuda:1
C9_Witness ==
  /\ OperatorStep /\ BoundDeviceArgs(last.node) # {}
  /\ FirstDeviceArg(last.node).kind = "nullopt"
  /\ Min(BoundDeviceArgs(last.node)) = 5
  /\ \A i \in {1, 2} : InputType(last.node, i).device = Some("cuda:0")
  /\ type[last.node.outputs[1]].device = Some("cuda:1")
  /\ ~changed_

\* C10: when the device comes from the operands and some tensor input has an
\* unknown device, every tensor output is set to unknown.
C10_UnknownAbsorbing ==
  (OperandStep
     /\ \E i \in TensorInputs(last.node) : InputType(last.node, i).device = Nullopt)
    => OutputsAre(last.node, Nullopt)

\* operands zero-rank CPU, unknown device, cuda:0 in this order, the output
\* annotated cuda:1 on entry
C10_Witness ==
  /\ OperandStep
  /\ Len(last.node.inputs) = 3
  /\ ZeroRankDefault(InputType(last.node, 1))
  /\ InputType(last.node, 2).tensor /\ InputType(last.node, 2).device = Nullopt
  /\ InputType(last.node, 3).device = Some("cuda:0")
  /\ last.before[last.node.outputs[1]].device = Some("cuda:1")
  /\ OutputsAre(last.node, Nullopt)

====
